---- MODULE Spec2Model ----
(***************************************************************************)
(* A model of include/BST.h: the binary search tree BST<K,V,Comp> with     *)
(* Comp = std::less<K>, its nodes, its in-order iterator, and the          *)
(* operations insert, find, balance, clear, const operator[], operator<<,  *)
(* copy construction and copy assignment.                                  *)
(*                                                                         *)
(* A BST object is a record [root, nodes]: root is the address held by the *)
(* unique_ptr BST::root and nodes maps every live address to its BST_node. *)
(* Addresses name ownership slots: the root lives at RootAddr, the node    *)
(* owned by p->left_child at 2p and the one owned by p->right_child at     *)
(* 2p+1; nullptr is 0.  A node created in a slot whose former owner was    *)
(* released gets that slot's address again.                                *)
(***************************************************************************)
EXTENDS Integers, Sequences, FiniteSets, TLC

\* Largest key of the key domain.
MaxKey == 8

\* Keys: the keys of the documented scenario (5, 3, 8, 1, 4), then the
\* integers above them.
Keys == {k \in 1..MaxKey : k \in {1, 3, 4, 5, 8} \/ k > 8}

\* Values are opaque to the tree (never compared, only stored and copied).
Values == {"a", "b"}

nullptr == 0

RootAddr == 1

\* size_t arithmetic is modular; the modulus stands for 2^64.
SIZE_MOD == 1073741824

VARIABLES
    tree,   \* the BST object under test (*this)
    temp,   \* a second BST object: the destination of a copy construction
    last,   \* the last operation called, its arguments and what it returned
    fault   \* "none", or the undefined behaviour the last operation ran into

vars == <<tree, temp, last, fault>>

\* Comp = std::less<K>
compare(a, b) == a < b

\* neither key is less than the other
equivalent(a, b) == ~compare(a, b) /\ ~compare(b, a)

\* BST_node(key, value, father)
BST_node(key, value, father) ==
    [left_child |-> nullptr, right_child |-> nullptr, parent |-> father,
     first |-> key, second |-> value]

\* BST() = default
EmptyBST == [root |-> nullptr, nodes |-> [a \in {} |-> BST_node(0, "a", nullptr)]]

\* the address a new node gets when the slot left_child / right_child of
\* previous_node takes ownership of it
new_node(previous_node, left) ==
    IF left THEN 2 * previous_node ELSE 2 * previous_node + 1

\* ~BST_node(): releasing a node releases what its unique_ptrs own
RECURSIVE Owned(_, _)
Owned(nodes, a) ==
    IF a = nullptr THEN {}
    ELSE {a} \cup Owned(nodes, nodes[a].left_child)
             \cup Owned(nodes, nodes[a].right_child)

\* clear(): root.reset(nullptr)
clear(t) ==
    LET gone == Owned(t.nodes, t.root)
    IN  [root |-> nullptr, nodes |-> [a \in DOMAIN t.nodes \ gone |-> t.nodes[a]]]

\* get_min()
RECURSIVE leftmost(_, _)
leftmost(nodes, current) ==
    IF nodes[current].left_child # nullptr
    THEN leftmost(nodes, nodes[current].left_child)
    ELSE current

get_min(t) == IF t.root = nullptr THEN nullptr ELSE leftmost(t.nodes, t.root)

\* begin() and end()
begin(t) == get_min(t)

end == nullptr

\* the loop of find
RECURSIVE find_walk(_, _, _)
find_walk(nodes, key, current) ==
    IF current = nullptr THEN end
    ELSE LET curr_key == nodes[current].first
         IN  IF ~compare(curr_key, key) /\ ~compare(key, curr_key) THEN current
             ELSE IF compare(key, curr_key)
                  THEN find_walk(nodes, key, nodes[current].left_child)
                  ELSE find_walk(nodes, key, nodes[current].right_child)

\* find(key): the address the returned iterator holds
find(t, key) == find_walk(t.nodes, key, t.root)

\* the while loop of insert: where it stops
RECURSIVE insert_walk(_, _, _, _)
insert_walk(nodes, key, previous_node, current_node) ==
    IF current_node = nullptr
    THEN [previous_node |-> previous_node, current_node |-> nullptr]
    ELSE LET current_key == nodes[current_node].first
         IN  IF ~compare(current_key, key) /\ ~compare(key, current_key)
             THEN [previous_node |-> previous_node, current_node |-> current_node]
             ELSE IF compare(key, current_key)
                  THEN insert_walk(nodes, key, current_node, nodes[current_node].left_child)
                  ELSE insert_walk(nodes, key, current_node, nodes[current_node].right_child)

\* child.reset(new node_type{key, value, previous_node}) on the slot of
\* previous_node that compare(key, previous_node->data.first) selects
reset_child(nodes, previous_node, key, value) ==
    LET left  == compare(key, nodes[previous_node].first)
        old   == IF left THEN nodes[previous_node].left_child
                         ELSE nodes[previous_node].right_child
        fresh == new_node(previous_node, left)
        kept  == (DOMAIN nodes \ Owned(nodes, old)) \cup {fresh}
    IN  [a \in kept |->
            IF a = fresh THEN BST_node(key, value, previous_node)
            ELSE IF a = previous_node
                 THEN IF left THEN [nodes[a] EXCEPT !.left_child = fresh]
                              ELSE [nodes[a] EXCEPT !.right_child = fresh]
                 ELSE nodes[a]]

\* an insert that forgets to store the value in the node it found
insert_nostore(t, key, value) ==
    IF t.root = nullptr
    THEN [root |-> RootAddr, nodes |-> (RootAddr :> BST_node(key, value, nullptr))]
    ELSE LET w == insert_walk(t.nodes, key, t.root, t.root)
         IN  [root |-> t.root,
              nodes |-> reset_child(t.nodes, w.previous_node, key, value)]

\* insert(key, value)
insert(t, key, value) ==
    IF t.root = nullptr
    THEN [root |-> RootAddr, nodes |-> (RootAddr :> BST_node(key, value, nullptr))]
    ELSE LET w == insert_walk(t.nodes, key, t.root, t.root)
             stored == IF w.current_node # nullptr
                       THEN [t.nodes EXCEPT ![w.current_node].second = value]
                       ELSE t.nodes
         IN  [root |-> t.root,
              nodes |-> reset_child(stored, w.previous_node, key, value)]

\* insert(pair)
insert_pair(t, pair) == insert(t, pair[1], pair[2])

\* BST_iterator::operator*: the pair stored in the node
data(nodes, current) == <<nodes[current].first, nodes[current].second>>

\* the else branch of operator++: climb while current is a right child
RECURSIVE ascend(_, _, _)
ascend(nodes, current, p) ==
    IF p # nullptr /\ current = nodes[p].right_child
    THEN ascend(nodes, p, nodes[p].parent)
    ELSE p

\* an operator++ that never enters the right subtree
increment_climbonly(nodes, current) ==
    ascend(nodes, current, nodes[current].parent)

\* BST_iterator::operator++
increment(nodes, current) ==
    IF nodes[current].right_child # nullptr
    THEN leftmost(nodes, nodes[current].right_child)
    ELSE ascend(nodes, current, nodes[current].parent)

\* for (const auto& x : tree): the nodes visited from it until end()
RECURSIVE range_for(_, _, _)
range_for(nodes, it, visited) ==
    IF it = end THEN visited
    ELSE range_for(nodes, increment(nodes, it), Append(visited, it))

\* the pairs a range-for loop over the tree reads, in the order it reads them
pairs_of(t) ==
    LET visited == range_for(t.nodes, begin(t), <<>>)
    IN  [i \in 1..Len(visited) |-> data(t.nodes, visited[i])]

\* insert(const node_type& subtree): the node, its left subtree, its right one
RECURSIVE insert_subtree(_, _, _)
insert_subtree(t, src, subtree) ==
    LET t1 == insert_pair(t, data(src, subtree))
        t2 == IF src[subtree].left_child # nullptr
              THEN insert_subtree(t1, src, src[subtree].left_child)
              ELSE t1
    IN  IF src[subtree].right_child # nullptr
        THEN insert_subtree(t2, src, src[subtree].right_child)
        ELSE t2

\* BST(const BST& other): insert(*other.root).  Dereferencing an empty
\* other.root is undefined; null_deref reports it.
copy_ctor(other) ==
    IF other.root = nullptr
    THEN [t |-> EmptyBST, null_deref |-> TRUE]
    ELSE [t |-> insert_subtree(EmptyBST, other.nodes, other.root), null_deref |-> FALSE]

\* operator=(BST&& other): root = std::move(other.root)
move_assign(this, other) == [this |-> other, other |-> EmptyBST]

\* size_t subtraction and addition
size_sub(a, b) == (a - b + SIZE_MOD) % SIZE_MOD

size_add(a, b) == (a + b) % SIZE_MOD

\* whether vect[i] is an element of the vector (i counts from 0)
in_range(vect, i) == i < Len(vect)

\* vect[i]
at(vect, i) == vect[i + 1]

\* insert_median(vect, lo, hi): the tree it leaves, and whether it read
\* outside the vector (oob); it is followed no further once it did
RECURSIVE insert_median(_, _, _, _)
insert_median(t, vect, lo, hi) ==
    IF size_sub(hi, lo) = 1
    THEN IF in_range(vect, lo) /\ in_range(vect, hi)
         THEN [t |-> insert_pair(insert_pair(t, at(vect, lo)), at(vect, hi)),
               oob |-> FALSE]
         ELSE [t |-> t, oob |-> TRUE]
    ELSE IF hi = lo
    THEN IF in_range(vect, lo)
         THEN [t |-> insert_pair(t, at(vect, lo)), oob |-> FALSE]
         ELSE [t |-> t, oob |-> TRUE]
    ELSE LET mid == size_add(lo, size_sub(hi, lo) \div 2)
         IN  IF ~in_range(vect, mid) THEN [t |-> t, oob |-> TRUE]
             ELSE LET l == insert_median(insert_pair(t, at(vect, mid)), vect,
                                         lo, size_sub(mid, 1))
                  IN  IF l.oob THEN l
                      ELSE insert_median(l.t, vect, size_add(mid, 1), hi)

\* balance(): the pairs drained, then clear(), then insert_median
balance(t) ==
    LET pairs == pairs_of(t)
    IN  insert_median(clear(t), pairs, 0, size_sub(Len(pairs), 1))

\* What a build can leave behind when an operation reads through a null
\* pointer or outside a vector right after the tree was emptied: the
\* process stops with the tree empty, or the read yields some pair and
\* that pair is inserted before it stops.
UBTrees == {EmptyBST} \cup {insert(EmptyBST, k, v) : k \in Keys, v \in Values}

\* a const operator[] that answers a missing key with a value
const_subscript_nothrow(t, arg_key) ==
    LET iter == find(t, arg_key)
    IN  IF iter # end
        THEN [thrown |-> "none", value |-> t.nodes[iter].second]
        ELSE [thrown |-> "none", value |-> "a"]

\* operator[](const key_type&) const
const_subscript(t, arg_key) ==
    LET iter == find(t, arg_key)
    IN  IF iter # end
        THEN [thrown |-> "none", value |-> t.nodes[iter].second]
        ELSE [thrown |-> "std::out_of_range", value |-> "a"]

----------------------------------------------------------------------------
\* The operations, as the caller's steps.

\* a second BST object is alive between its copy construction and its end
CopyAlive == last.op = "copy"

\* the caller is between two calls
Ready == fault = "none" /\ last.op = "idle"

Init ==
    /\ tree = EmptyBST
    /\ temp = EmptyBST
    /\ last = [op |-> "idle"]
    /\ fault = "none"

\* tree.insert(key, value)
Insert(key, value) ==
    /\ Ready
    /\ tree' = insert(tree, key, value)
    /\ last' = [op |-> "insert", key |-> key, value |-> value,
                present |-> \E a \in DOMAIN tree.nodes :
                                equivalent(tree.nodes[a].first, key)]
    /\ UNCHANGED <<temp, fault>>

\* tree.find(key)
Find(key) ==
    /\ Ready
    /\ last' = [op |-> "find", key |-> key, it |-> find(tree, key)]
    /\ UNCHANGED <<tree, temp, fault>>

\* tree[key] on a const tree
ConstSubscript(key) ==
    /\ Ready
    /\ last' = [op |-> "const[]", key |-> key, ret |-> const_subscript(tree, key)]
    /\ UNCHANGED <<tree, temp, fault>>

\* tree.clear()
Clear ==
    /\ Ready
    /\ tree' = clear(tree)
    /\ last' = [op |-> "clear"]
    /\ UNCHANGED <<temp, fault>>

\* tree.balance()
Balance ==
    /\ Ready
    /\ LET r == balance(tree)
       IN  IF r.oob
           THEN /\ fault' = "read outside the vector"
                /\ tree' \in UBTrees
           ELSE /\ fault' = "none"
                /\ tree' = r.t
    /\ last' = [op |-> "balance", pairs |-> pairs_of(tree)]
    /\ UNCHANGED temp

\* os << tree: the loop from begin() to end()
StreamOut ==
    /\ Ready
    /\ last' = [op |-> "print",
                visited |-> range_for(tree.nodes, begin(tree), <<>>),
                os |-> pairs_of(tree)]
    /\ UNCHANGED <<tree, temp, fault>>

\* BST temp{tree}
CopyConstruct ==
    /\ Ready
    /\ LET r == copy_ctor(tree)
       IN  IF r.null_deref
           THEN /\ fault' = "null dereference"
                /\ temp' \in UBTrees
           ELSE /\ fault' = "none"
                /\ temp' = r.t
    /\ last' = [op |-> "copy"]
    /\ UNCHANGED tree

\* the copy goes out of scope
DestroyCopy ==
    /\ fault = "none"
    /\ CopyAlive
    /\ temp' = EmptyBST
    /\ last' = [op |-> "idle"]
    /\ UNCHANGED <<tree, fault>>

\* the caller is done with what the last call returned
Return ==
    /\ fault = "none"
    /\ last.op \notin {"idle", "copy"}
    /\ last' = [op |-> "idle"]
    /\ UNCHANGED <<tree, temp, fault>>

\* tree = tree: clear(), then a copy of other (which is *this), then the
\* move assignment of that copy
CopyAssignSelf ==
    /\ Ready
    /\ LET cleared == clear(tree)
           r == copy_ctor(cleared)
       IN  IF r.null_deref
           THEN /\ fault' = "null dereference"
                /\ tree' \in UBTrees
           ELSE /\ fault' = "none"
                /\ tree' = move_assign(cleared, r.t).this
    /\ last' = [op |-> "self="]
    /\ UNCHANGED temp

Next ==
    \/ \E key \in Keys, value \in Values : Insert(key, value)
    \/ \E key \in Keys : Find(key)
    \/ \E key \in Keys : ConstSubscript(key)
    \/ Clear
    \/ Balance
    \/ StreamOut
    \/ CopyConstruct
    \/ DestroyCopy
    \/ Return
    \/ CopyAssignSelf

Spec == Init /\ [][Next]_vars

----------------------------------------------------------------------------
\* What the properties are stated with: the tree read through its owning
\* links alone, without the walks of find, insert and operator++.

\* some node holds a key equivalent to key
Present(t, key) == \E a \in DOMAIN t.nodes : equivalent(t.nodes[a].first, key)

\* the set of (key, value) pairs stored in the tree
PairSet(t) == {data(t.nodes, a) : a \in DOMAIN t.nodes}

Range(seq) == {seq[i] : i \in 1..Len(seq)}

\* left subtree, node, right subtree
RECURSIVE InOrder(_, _)
InOrder(nodes, a) ==
    IF a = nullptr THEN <<>>
    ELSE InOrder(nodes, nodes[a].left_child) \o <<a>>
         \o InOrder(nodes, nodes[a].right_child)

\* number of nodes on the longest path from a down to a leaf
RECURSIVE Height(_, _)
Height(nodes, a) ==
    IF a = nullptr THEN 0
    ELSE LET l == Height(nodes, nodes[a].left_child)
             r == Height(nodes, nodes[a].right_child)
         IN  1 + (IF l > r THEN l ELSE r)

\* ceil(log2(m)) for m >= 1: the least h with 2^h >= m
RECURSIVE CeilLog2From(_, _, _)
CeilLog2From(m, h, pow) == IF pow >= m THEN h ELSE CeilLog2From(m, h + 1, 2 * pow)

CeilLog2(m) == CeilLog2From(m, 0, 1)

KeysOf(pairs) == [i \in 1..Len(pairs) |-> pairs[i][1]]

\* same nodes, same links, same keys and values
SameShape(t, u) ==
    /\ t.root = u.root
    /\ DOMAIN t.nodes = DOMAIN u.nodes
    /\ \A a \in DOMAIN t.nodes :
          /\ t.nodes[a].left_child = u.nodes[a].left_child
          /\ t.nodes[a].right_child = u.nodes[a].right_child
          /\ t.nodes[a].parent = u.nodes[a].parent
          /\ t.nodes[a].first = u.nodes[a].first

----------------------------------------------------------------------------
\* C1: insert(k, v) of a key already present overwrites the value of the
\* node holding it and changes nothing else: the same nodes, the same
\* number of elements, the same left, right and parent links.
C1_InsertPresentKeepsStructure ==
    [][\A k \in Keys, v \in Values :
          (Insert(k, v) /\ Present(tree, k)) =>
              /\ SameShape(tree', tree)
              /\ Cardinality(DOMAIN tree'.nodes) = Cardinality(DOMAIN tree.nodes)
              /\ \E n \in DOMAIN tree.nodes :
                    /\ equivalent(tree.nodes[n].first, k)
                    /\ tree'.nodes = [tree.nodes EXCEPT ![n].second = v]]_vars

\* C2: in every reachable state the keys read from begin() to end() are
\* strictly ascending (so no two nodes hold equivalent keys), and every key
\* in a node's right subtree is strictly greater than the node's key.
C2_StrictlyAscending ==
    LET ks == KeysOf(pairs_of(tree))
    IN  /\ \A i, j \in 1..Len(ks) : i < j => compare(ks[i], ks[j])
        /\ \A a, b \in DOMAIN tree.nodes :
              (a # b) => ~equivalent(tree.nodes[a].first, tree.nodes[b].first)
        /\ \A a \in DOMAIN tree.nodes :
              \A b \in Owned(tree.nodes, tree.nodes[a].right_child) :
                  compare(tree.nodes[a].first, tree.nodes[b].first)

\* C3: balance() preserves the key-to-value mapping: the set of pairs read
\* by in-order iteration after it equals the set read right before it.
C3_BalancePreservesPairs ==
    last.op = "balance" => Range(pairs_of(tree)) = Range(last.pairs)

\* C3, on the calls of balance() that run into no undefined behaviour
C3_BalancePreservesPairsNoFault ==
    (last.op = "balance" /\ fault = "none") =>
        Range(pairs_of(tree)) = Range(last.pairs)

\* C4: after balance() on a tree of n >= 1 elements the height is at most
\* ceil(log2(n+1)); the median is the left-biased one (keys 1,3,4,5 give
\* root 3), a range of two is inserted lo first (keys 1,3 give root 1 with
\* 3 to its right), and keys 1,3,4,5,8 give root 4, height 3 and the same
\* in-order sequence.
C4_BalancedHeight ==
    (last.op = "balance" /\ Len(last.pairs) >= 1) =>
        LET n  == Len(last.pairs)
            ks == KeysOf(last.pairs)
            rt == tree.nodes[tree.root]
        IN  /\ fault = "none"
            /\ tree.root # nullptr
            /\ Height(tree.nodes, tree.root) <= CeilLog2(n + 1)
            /\ (ks = <<1, 3, 4, 5, 8>>) =>
                  /\ rt.first = 4
                  /\ Height(tree.nodes, tree.root) = 3
                  /\ KeysOf(pairs_of(tree)) = <<1, 3, 4, 5, 8>>
            /\ (ks = <<1, 3, 4, 5>>) => rt.first = 3
            /\ (ks = <<1, 3>>) =>
                  /\ rt.first = 1
                  /\ rt.left_child = nullptr
                  /\ rt.right_child # nullptr
                  /\ tree.nodes[rt.right_child].first = 3

\* C4, on the trees in which no two nodes hold equivalent keys
C4_BalancedHeightDistinctKeys ==
    LET ks == KeysOf(last.pairs)
    IN  (/\ last.op = "balance"
         /\ Len(ks) >= 1
         /\ \A i, j \in 1..Len(ks) : i < j => compare(ks[i], ks[j])) =>
            /\ fault = "none"
            /\ Height(tree.nodes, tree.root) <= CeilLog2(Len(ks) + 1)
            /\ Range(pairs_of(tree)) = Range(last.pairs)

\* C5: the copy constructed from any tree, the empty one included, holds
\* the same set of pairs and has the same left/right branching at every node.
C5_CopyIsomorphic ==
    last.op = "copy" =>
        /\ fault = "none"
        /\ PairSet(temp) = PairSet(tree)
        /\ SameShape(temp, tree)

\* C5, on the trees that hold at least one node
C5_CopyIsomorphicNonEmpty ==
    (last.op = "copy" /\ tree.root # nullptr) =>
        /\ fault = "none"
        /\ temp = tree

\* C6: balance() never fails: it reads no pair outside the drained vector,
\* also on the empty tree, which is still empty afterwards.
C6_BalanceNeverFails ==
    last.op = "balance" =>
        /\ fault = "none"
        /\ (last.pairs = <<>>) => tree = EmptyBST

\* A step is a call op(k) exactly when op(k) holds of it with k the key
\* the step records in last; the properties of single calls read the
\* arguments there.

\* C7: const operator[] on a key with no equivalent node throws
\* std::out_of_range and inserts nothing (the tree is as it was); on a key
\* that is present it returns that node's value and throws nothing.
C7_ConstSubscript ==
    [][(last'.op = "const[]" /\ ConstSubscript(last'.key)) =>
          LET k == last'.key
          IN  /\ tree' = tree
              /\ IF Present(tree, k)
                 THEN /\ last'.ret.thrown = "none"
                      /\ \E a \in DOMAIN tree.nodes :
                            /\ equivalent(tree.nodes[a].first, k)
                            /\ last'.ret.value = tree.nodes[a].second
                 ELSE last'.ret.thrown = "std::out_of_range"]_vars

C7_Witness ==
    /\ last.op = "const[]"
    /\ tree.root # nullptr
    /\ ~Present(tree, last.key)
    /\ last.ret.thrown = "std::out_of_range"

\* C8: right after insert(k, v), find(k) is not past-the-end and points at
\* the pair (k, v); find of a key with no equivalent node is past-the-end
\* and leaves the tree as it was.
C8_FindAfterInsert ==
    [][/\ (last'.op = "insert" /\ Insert(last'.key, last'.value)) =>
             LET k == last'.key
                 v == last'.value
             IN  /\ find(tree', k) # end
                 /\ data(tree'.nodes, find(tree', k)) = <<k, v>>
       /\ (last'.op = "find" /\ Find(last'.key) /\ ~Present(tree, last'.key)) =>
             /\ last'.it = end
             /\ tree' = tree]_vars

C8_Witness ==
    /\ last.op = "insert"
    /\ last.present
    /\ Cardinality(DOMAIN tree.nodes) >= 3
    /\ find(tree, last.key) # tree.root
    /\ data(tree.nodes, find(tree, last.key)) = <<last.key, last.value>>

\* C9: from begin() (the leftmost descendant of the root, past-the-end on
\* the empty tree) repeated operator++ visits every node exactly once, in
\* in-order sequence, and is past-the-end after exactly n advances.
C9_IterationInOrder ==
    last.op = "print" =>
        LET n == Cardinality(DOMAIN tree.nodes)
        IN  /\ last.visited = InOrder(tree.nodes, tree.root)
            /\ Len(last.visited) = n
            /\ Range(last.visited) = DOMAIN tree.nodes
            /\ (n = 0) => begin(tree) = end
            /\ (n > 0) => /\ begin(tree) = last.visited[1]
                          /\ tree.nodes[begin(tree)].left_child = nullptr

C9_Witness ==
    /\ last.op = "print"
    /\ Len(last.visited) >= 5
    /\ \E a \in DOMAIN tree.nodes :
          /\ tree.nodes[a].left_child # nullptr
          /\ tree.nodes[a].right_child # nullptr
          /\ tree.nodes[a].parent # nullptr

\* C10: the copy assignment of a tree to itself completes without error
\* and leaves the tree with the same pairs and the same shape.
C10_SelfAssignKeepsTree ==
    [][CopyAssignSelf => (fault' = "none" /\ tree' = tree)]_vars

====
